---- MODULE Spec2Model ----
(***************************************************************************)
(* A model of src/server/request.ts: the request URL classes, the header   *)
(* builder getHeaders, the signal builder getSignal and the dispatcher     *)
(* makeServerRequest.                                                      *)
(*                                                                         *)
(* Strings are sequences of tokens ("https:", "//", a host, "/", a path    *)
(* segment, ...), so that string concatenation is \o and the platform's    *)
(* URL and Headers classes can be modelled by what they do to a string:    *)
(* parsing it, normalising it and serialising it again.                    *)
(***************************************************************************)
EXTENDS Integers, Sequences, FiniteSets, TLC

VARIABLES
  urlObj,      \* the ServerRequestUrl being built (URL specifications)
  initialHref, \* history: what urlObj rendered as right after construction
  appendLog,   \* history: the appendPath / appendParam calls made on urlObj
  hdrCall,     \* the last getHeaders call: its url and its outcome
  reqs,        \* per request: phase, url, headers, body, returned result
  ctrl,        \* per request: the AbortController getSignal created
  timer,       \* per request: the setTimeout task getSignal scheduled
  extAborted,  \* per external AbortSignal: its aborted flag
  listeners,   \* per external AbortSignal: the "abort" listeners added
  fetchCalls,  \* history: every invocation of the transport function
  cause        \* history: per request, what has called controller.abort()

vars == <<urlObj, initialHref, appendLog, hdrCall, reqs, ctrl, timer,
          extAborted, listeners, fetchCalls, cause>>

urlVars == <<urlObj, initialHref, appendLog>>
reqVars == <<reqs, ctrl, timer, extAborted, listeners, fetchCalls, cause>>

(***************************************************************************)
(* Bounds of the model.                                                    *)
(***************************************************************************)
MaxAppends == 4   \* appendPath / appendParam calls on one URL
MaxHeaders == 2   \* entries of one customHeaders value
MaxTimeout == 1   \* largest timeout, in timer ticks

(***************************************************************************)
(* Optional values: undefined, or a defined value.                         *)
(***************************************************************************)
Undefined == [def |-> FALSE]
Some(v) == [def |-> TRUE, val |-> v]

SeqsUpTo(S, n) == UNION {[1..k -> S] : k \in 0..n}

(***************************************************************************)
(* ASCII lower-casing, as the URL parser applies it to scheme and host and *)
(* the Headers class to header names.                                      *)
(***************************************************************************)
ToLowerCase(tok) ==
  CASE tok = "HTTPS:" -> "https:"
    [] tok = "Proxy.Example" -> "proxy.example"
    [] tok = "Foo" -> "foo"
    [] tok = "X-Goog-Api-Key" -> "x-goog-api-key"
    [] tok = "X-Goog-Api-Client" -> "x-goog-api-client"
    [] OTHER -> tok

(***************************************************************************)
(* Collaborators imported at lines 18-26.                                  *)
(***************************************************************************)
DEFAULT_API_VERSION == <<"v1beta">>
DEFAULT_BASE_URL == <<"https:", "//", "generativelanguage.googleapis.com">>

RpcTask == {"UPLOAD", "LIST", "GET", "DELETE", "UPDATE", "CREATE"}

\* Variant: UPDATE sent as PUT.
taskToMethodPut(task) ==
  CASE task = "UPLOAD" -> "POST"
    [] task = "LIST" -> "GET"
    [] task = "GET" -> "GET"
    [] task = "DELETE" -> "DELETE"
    [] task = "UPDATE" -> "PUT"
    [] task = "CREATE" -> "POST"

\* The table of lines 28-35.
taskToMethod(task) ==
  CASE task = "UPLOAD" -> "POST"
    [] task = "LIST" -> "GET"
    [] task = "GET" -> "GET"
    [] task = "DELETE" -> "DELETE"
    [] task = "UPDATE" -> "PATCH"
    [] task = "CREATE" -> "POST"

(***************************************************************************)
(* The platform's URL class, on token strings.  A parsed URL is a record   *)
(* of scheme, host, path (a sequence of segments, "" being the empty       *)
(* segment) and query (a sequence of <<key, value>> entries).              *)
(***************************************************************************)
Schemes == {"https:", "HTTPS:"}
DotSegments == {".", ".."}

\* "shorten a URL's path": drop the last segment, if any.
Shorten(path) == IF path = <<>> THEN <<>> ELSE SubSeq(path, 1, Len(path) - 1)

\* The path state at the end of a segment; atEnd when no "/" follows it.
EndSegment(path, buffer, atEnd) ==
  IF buffer = ".." THEN (IF atEnd THEN Shorten(path) \o <<"">> ELSE Shorten(path))
  ELSE IF buffer = "." THEN (IF atEnd THEN path \o <<"">> ELSE path)
  ELSE path \o <<buffer>>

RECURSIVE PathState(_, _, _)
PathState(toks, path, buffer) ==
  IF toks = <<>> THEN EndSegment(path, buffer, TRUE)
  ELSE IF Head(toks) = "/" THEN PathState(Tail(toks), EndSegment(path, buffer, FALSE), "")
  ELSE PathState(Tail(toks), path, Head(toks))

\* The path start state: one leading "/" is consumed, then the path state.
ParsePath(toks) ==
  PathState(IF toks # <<>> /\ Head(toks) = "/" THEN Tail(toks) ELSE toks, <<>>, "")

\* new URL(input): a URL-format error unless input is scheme // host path.
ValidUrlString(input) ==
  /\ Len(input) >= 3
  /\ input[1] \in Schemes
  /\ input[2] = "//"
  /\ input[3] \notin {"/", "//"} \cup Schemes
  /\ Len(input) >= 4 => input[4] = "/"

NewURL(input) ==
  [scheme |-> ToLowerCase(input[1]),
   host |-> ToLowerCase(input[3]),
   path |-> ParsePath(SubSeq(input, 4, Len(input))),
   query |-> <<>>]

\* The pathname getter: "/" and the segment, for every segment.
RECURSIVE Pathname(_)
Pathname(path) ==
  IF path = <<>> THEN <<>>
  ELSE (IF Head(path) = "" THEN <<"/">> ELSE <<"/", Head(path)>>) \o Pathname(Tail(path))

\* The query of the serialised URL: ?k=v&k=v...
RECURSIVE QueryEntries(_)
QueryEntries(query) ==
  IF query = <<>> THEN <<>>
  ELSE <<Head(query)[1], "=", Head(query)[2]>>
       \o (IF Tail(query) = <<>> THEN <<>> ELSE <<"&">> \o QueryEntries(Tail(query)))

Search(query) == IF query = <<>> THEN <<>> ELSE <<"?">> \o QueryEntries(query)

Href(u) == <<u.scheme, "//", u.host>> \o Pathname(u.path) \o Search(u.query)

(***************************************************************************)
(* ServerRequestUrl and its two subclasses.                                *)
(***************************************************************************)
\* requestOptions?.field: undefined when requestOptions is.
Field(requestOptions, f) ==
  IF requestOptions.def THEN requestOptions.val[f] ELSE Undefined

\* x || d on an optional string: undefined and "" are falsy.
OrDefault(opt, d) == IF opt.def /\ opt.val # <<>> THEN opt.val ELSE d

CachedContentInitialUrl(task, requestOptions) ==
  LET apiVersion == OrDefault(Field(requestOptions, "apiVersion"), DEFAULT_API_VERSION)
      baseUrl == OrDefault(Field(requestOptions, "baseUrl"), DEFAULT_BASE_URL)
  IN  baseUrl \o <<"/">> \o apiVersion \o <<"/", "cachedContents">>

\* Variant: the /upload prefix for every task sent as POST.
FilesInitialUrlUploadOnPost(task, requestOptions) ==
  LET apiVersion == OrDefault(Field(requestOptions, "apiVersion"), DEFAULT_API_VERSION)
      baseUrl == OrDefault(Field(requestOptions, "baseUrl"), DEFAULT_BASE_URL)
      prefix == IF task \in {"UPLOAD", "CREATE"} THEN baseUrl \o <<"/", "upload">> ELSE baseUrl
  IN  prefix \o <<"/">> \o apiVersion \o <<"/", "files">>

\* Lines 80-86.
FilesInitialUrl(task, requestOptions) ==
  LET apiVersion == OrDefault(Field(requestOptions, "apiVersion"), DEFAULT_API_VERSION)
      baseUrl == OrDefault(Field(requestOptions, "baseUrl"), DEFAULT_BASE_URL)
      prefix == IF task = "UPLOAD" THEN baseUrl \o <<"/", "upload">> ELSE baseUrl
  IN  prefix \o <<"/">> \o apiVersion \o <<"/", "files">>

InitialUrl(cls, task, requestOptions) ==
  IF cls = "CachedContentUrl" THEN CachedContentInitialUrl(task, requestOptions)
  ELSE FilesInitialUrl(task, requestOptions)

UrlClasses == {"CachedContentUrl", "FilesRequestUrl"}

\* The constructed object; only defined when the initial URL parses.
NewRequestUrl(cls, task, apiKey, requestOptions) ==
  [cls |-> cls, task |-> task, apiKey |-> apiKey, requestOptions |-> requestOptions,
   _url |-> NewURL(InitialUrl(cls, task, requestOptions))]

appendPath(u, path) ==
  [u EXCEPT !._url.path = ParsePath(Pathname(u._url.path) \o <<"/">> \o path)]

\* searchParams.set in place of append: a repeated key is overwritten.
appendParamSets(u, key, value) ==
  [u EXCEPT !._url.query =
     SelectSeq(u._url.query, LAMBDA e : e[1] # key) \o <<<<key, value>>>>]

appendParam(u, key, value) ==
  [u EXCEPT !._url.query = Append(u._url.query, <<key, value>>)]

toString(u) == Href(u._url)

(***************************************************************************)
(* Request options.  Every field is optional; the options themselves are   *)
(* optional too.                                                           *)
(***************************************************************************)
Options(apiVersion, baseUrl, customHeaders, timeout, signal) ==
  Some([apiVersion |-> apiVersion, baseUrl |-> baseUrl, apiClient |-> Undefined,
        customHeaders |-> customHeaders, timeout |-> timeout, signal |-> signal])

UrlOptions(apiVersion, baseUrl) ==
  Options(apiVersion, baseUrl, Undefined, Undefined, Undefined)

(***************************************************************************)
(* Building a request URL: the constructors, appendPath and appendParam.   *)
(***************************************************************************)
NoUrl == [def |-> FALSE, threw |-> FALSE]
UrlFormatError == [def |-> FALSE, threw |-> TRUE]

Construct(cls, task, apiKey, requestOptions) ==
  /\ urlObj = NoUrl
  /\ IF ValidUrlString(InitialUrl(cls, task, requestOptions))
     THEN /\ urlObj' = Some(NewRequestUrl(cls, task, apiKey, requestOptions))
          /\ initialHref' = toString(NewRequestUrl(cls, task, apiKey, requestOptions))
     ELSE /\ urlObj' = UrlFormatError
          /\ initialHref' = <<>>
  /\ appendLog' = <<>>
  /\ UNCHANGED <<hdrCall, reqVars>>

AppendPath(path) ==
  /\ urlObj.def
  /\ Len(appendLog) < MaxAppends
  /\ urlObj' = Some(appendPath(urlObj.val, path))
  /\ appendLog' = Append(appendLog, [op |-> "appendPath", path |-> path])
  /\ UNCHANGED <<initialHref, hdrCall, reqVars>>

AppendParam(key, value) ==
  /\ urlObj.def
  /\ Len(appendLog) < MaxAppends
  /\ urlObj' = Some(appendParam(urlObj.val, key, value))
  /\ appendLog' = Append(appendLog, [op |-> "appendParam", key |-> key, value |-> value])
  /\ UNCHANGED <<initialHref, hdrCall, reqVars>>

\* The object is dropped after the call it was built for.
Discard ==
  /\ urlObj # NoUrl
  /\ urlObj' = NoUrl
  /\ initialHref' = <<>>
  /\ appendLog' = <<>>
  /\ UNCHANGED <<hdrCall, reqVars>>

\* Inputs.
BaseUrls ==
  {Undefined, Some(<<>>),
   Some(<<"https:", "//", "proxy.example">>),
   Some(<<"https:", "//", "proxy.example", "/">>),
   Some(<<"https:", "//", "proxy.example", "/", "api">>),
   Some(<<"https:", "//", "Proxy.Example">>),
   Some(<<"HTTPS:", "//", "proxy.example">>),
   Some(<<"proxy.example">>)}
ApiVersions == {Undefined, Some(<<>>), Some(<<"v1">>), Some(<<"..">>)}
CtorOptions ==
  {Undefined} \cup {UrlOptions(v, b) : v \in ApiVersions, b \in BaseUrls}

PathArgs == {<<>>, <<"a">>, <<"b">>, <<".">>, <<"..">>}
ParamKeys == {"k"}
ParamValues == {"v"}
AppendOptions ==
  {Undefined, UrlOptions(Some(<<"v1">>), Some(<<"https:", "//", "proxy.example", "/">>))}

IdleRest ==
  /\ hdrCall = Undefined
  /\ reqs = <<>> /\ ctrl = <<>> /\ timer = <<>> /\ cause = <<>>
  /\ extAborted = <<>> /\ listeners = <<>> /\ fetchCalls = <<>>

UrlInit ==
  /\ urlObj = NoUrl /\ initialHref = <<>> /\ appendLog = <<>>
  /\ IdleRest

CtorNext ==
  \/ \E cls \in UrlClasses, task \in RpcTask, ro \in CtorOptions :
       Construct(cls, task, "k", ro)
  \/ Discard

CtorSpec == UrlInit /\ [][CtorNext]_vars

UrlNext ==
  \/ \E cls \in UrlClasses, task \in {"GET", "UPLOAD"}, ro \in AppendOptions :
       Construct(cls, task, "k", ro)
  \/ \E path \in PathArgs : AppendPath(path)
  \/ \E key \in ParamKeys, value \in ParamValues : AppendParam(key, value)
  \/ Discard

UrlSpec == UrlInit /\ [][UrlNext]_vars

(***************************************************************************)
(* The platform's Headers class.  A Headers object is its header list: a   *)
(* sequence of [name, value] entries.  A value is a sequence of value      *)
(* tokens; combining two values (the ", " join) concatenates them.         *)
(***************************************************************************)
InvalidHeaderNames == {"bad name"}

\* Variant: the name is kept as written.
HeadersAppendKeepsCase(headers, name, value) ==
  Append(headers, [name |-> name, value |-> value])

\* Headers.prototype.append on a valid name: the name is lower-cased.
HeadersAppend(headers, name, value) ==
  Append(headers, [name |-> ToLowerCase(name), value |-> value])

\* Headers.prototype.get: by name, whatever its case, values combined.
RECURSIVE HeadersGet(_, _)
HeadersGet(headers, name) ==
  IF headers = <<>> THEN <<>>
  ELSE (IF ToLowerCase(Head(headers).name) = ToLowerCase(name)
        THEN Head(headers).value ELSE <<>>)
       \o HeadersGet(Tail(headers), name)

HeadersHas(headers, name) ==
  \E i \in 1..Len(headers) : ToLowerCase(headers[i].name) = ToLowerCase(name)

\* new Headers(record): a TypeError on an invalid name, else every
\* property appended in property order.
RECURSIVE HeadersFill(_, _)
HeadersFill(headers, pairs) ==
  IF pairs = <<>> THEN headers
  ELSE HeadersFill(HeadersAppend(headers, Head(pairs)[1], Head(pairs)[2]), Tail(pairs))

ConvertsToHeaders(pairs) ==
  \A i \in 1..Len(pairs) : pairs[i][1] \notin InvalidHeaderNames

\* Header names in code-unit order, as entries() sorts them.
SortedNames ==
  <<"Foo", "X-Goog-Api-Client", "X-Goog-Api-Key",
    "bar", "foo", "x-goog-api-client", "x-goog-api-key">>

RECURSIVE ValuesNamed(_, _)
ValuesNamed(headers, name) ==
  IF headers = <<>> THEN <<>>
  ELSE (IF Head(headers).name = name THEN Head(headers).value ELSE <<>>)
       \o ValuesNamed(Tail(headers), name)

\* Headers.prototype.entries: sorted by name, one combined entry a name.
RECURSIVE EntriesFrom(_, _)
EntriesFrom(headers, names) ==
  IF names = <<>> THEN <<>>
  ELSE (IF \E i \in 1..Len(headers) : headers[i].name = Head(names)
        THEN <<<<Head(names), ValuesNamed(headers, Head(names))>>>> ELSE <<>>)
       \o EntriesFrom(headers, Tail(names))

HeadersEntries(headers) == EntriesFrom(headers, SortedNames)

(***************************************************************************)
(* getHeaders.                                                             *)
(***************************************************************************)
\* The client-identification value: the apiClient option, then the package.
getClientHeaders(requestOptions) ==
  (IF Field(requestOptions, "apiClient").def
   THEN <<Field(requestOptions, "apiClient").val>> ELSE <<>>) \o <<"genai-js">>

InputError(message) ==
  [kind |-> "throw", error |-> "GoogleGenerativeAIRequestInputError", message |-> message]

Returned(value) == [kind |-> "return", value |-> value]

\* Variant: a reserved name is skipped, not rejected.
RECURSIVE MergeCustomSkipsReserved(_, _)
MergeCustomSkipsReserved(entries, headers) ==
  IF entries = <<>> THEN Returned(headers)
  ELSE IF Head(entries)[1] \in {"x-goog-api-key", "x-goog-api-client"}
  THEN MergeCustomSkipsReserved(Tail(entries), headers)
  ELSE MergeCustomSkipsReserved(Tail(entries),
                                HeadersAppend(headers, Head(entries)[1], Head(entries)[2]))

\* The for loop of lines 110-122 over the remaining entries.
RECURSIVE MergeCustom(_, _)
MergeCustom(entries, headers) ==
  IF entries = <<>> THEN Returned(headers)
  ELSE IF Head(entries)[1] = "x-goog-api-key" THEN InputError("reserved header name")
  ELSE IF Head(entries)[1] = "x-goog-api-client" THEN InputError("set using apiClient")
  ELSE MergeCustom(Tail(entries), HeadersAppend(headers, Head(entries)[1], Head(entries)[2]))

getHeaders(u) ==
  LET headers == HeadersAppend(
                   HeadersAppend(<<>>, "x-goog-api-client", getClientHeaders(u.requestOptions)),
                   "x-goog-api-key", <<u.apiKey>>)
      customHeaders == Field(u.requestOptions, "customHeaders")
  IN  IF ~customHeaders.def THEN Returned(headers)
      ELSE IF customHeaders.val.isHeaders
      THEN MergeCustom(HeadersEntries(customHeaders.val.list), headers)
      ELSE IF ~ConvertsToHeaders(customHeaders.val.record)
      THEN InputError("unable to convert customHeaders")
      ELSE MergeCustom(HeadersEntries(HeadersFill(<<>>, customHeaders.val.record)), headers)

GetHeaders(u) ==
  /\ hdrCall = Undefined
  /\ hdrCall' = Some([url |-> u, outcome |-> getHeaders(u)])
  /\ UNCHANGED <<urlVars, reqVars>>

\* The caller takes the outcome: the collection, or the error.
TakeHeaders ==
  /\ hdrCall.def
  /\ hdrCall' = Undefined
  /\ UNCHANGED <<urlVars, reqVars>>

\* Inputs: a record (distinct property names, any spelling) or a Headers
\* instance the caller filled with append.
HeaderNames ==
  {"foo", "Foo", "bar", "x-goog-api-key", "X-Goog-Api-Key",
   "x-goog-api-client", "X-Goog-Api-Client"}
HeaderValues == {<<"x">>, <<"y">>}
HeaderPairs(names) == {<<n, v>> : n \in names, v \in HeaderValues}

HeaderRecords ==
  {ps \in SeqsUpTo(HeaderPairs(HeaderNames \cup InvalidHeaderNames), MaxHeaders) :
     \A i, j \in 1..Len(ps) : i # j => ps[i][1] # ps[j][1]}
HeaderInstances ==
  {HeadersFill(<<>>, ps) : ps \in SeqsUpTo(HeaderPairs(HeaderNames), MaxHeaders)}

CustomHeaders ==
  {Undefined}
  \cup {Some([isHeaders |-> FALSE, record |-> ps]) : ps \in HeaderRecords}
  \cup {Some([isHeaders |-> TRUE, list |-> h]) : h \in HeaderInstances}

HeaderOptions ==
  {Undefined}
  \cup {Some([apiVersion |-> Undefined, baseUrl |-> Undefined, apiClient |-> c,
              customHeaders |-> h, timeout |-> Undefined, signal |-> Undefined]) :
          c \in {Undefined, Some("app")}, h \in CustomHeaders}

HdrInit ==
  /\ urlObj = NoUrl /\ initialHref = <<>> /\ appendLog = <<>>
  /\ IdleRest

HdrNext ==
  \/ \E cls \in UrlClasses, ro \in HeaderOptions :
       GetHeaders(NewRequestUrl(cls, "GET", "k", ro))
  \/ TakeHeaders

HdrSpec == HdrInit /\ [][HdrNext]_vars

(***************************************************************************)
(* getSignal and makeServerRequest.  A request is one invocation of        *)
(* makeServerRequest; the signal getSignal returns for it is named by the  *)
(* request, ctrl[r] being its controller: "none" (no controller was        *)
(* created), "live" or "aborted".                                          *)
(***************************************************************************)
Reqs == {"r1", "r2"}
ExtSignals == {"s1", "s2"}

\* requestOptions?.timeout >= 0: false on undefined.
TimeoutSet(requestOptions) ==
  /\ Field(requestOptions, "timeout").def
  /\ Field(requestOptions, "timeout").val >= 0

\* Variant: any timeout that is set counts, a negative one as 0.
getSignalNegativeTimeout(requestOptions) ==
  IF Field(requestOptions, "signal").def \/ Field(requestOptions, "timeout").def
  THEN [created |-> TRUE,
        delay |-> IF Field(requestOptions, "timeout").def
                  THEN (IF Field(requestOptions, "timeout").val >= 0
                        THEN Field(requestOptions, "timeout") ELSE Some(0))
                  ELSE Undefined,
        listenTo |-> Field(requestOptions, "signal")]
  ELSE [created |-> FALSE, delay |-> Undefined, listenTo |-> Undefined]

\* Variant: the timer is scheduled for timeout > 0 only.
getSignalTimeoutPositive(requestOptions) ==
  IF Field(requestOptions, "signal").def \/ TimeoutSet(requestOptions)
  THEN [created |-> TRUE,
        delay |-> IF TimeoutSet(requestOptions) /\ Field(requestOptions, "timeout").val > 0
                  THEN Field(requestOptions, "timeout") ELSE Undefined,
        listenTo |-> Field(requestOptions, "signal")]
  ELSE [created |-> FALSE, delay |-> Undefined, listenTo |-> Undefined]

\* What getSignal does: whether it creates a controller and returns its
\* signal, the delay of the timer it schedules and the external signal it
\* adds an "abort" listener to.  An external signal is only listened to:
\* its aborted flag is not read.
getSignal(requestOptions) ==
  IF Field(requestOptions, "signal").def \/ TimeoutSet(requestOptions)
  THEN [created |-> TRUE,
        delay |-> IF TimeoutSet(requestOptions)
                  THEN Field(requestOptions, "timeout") ELSE Undefined,
        listenTo |-> Field(requestOptions, "signal")]
  ELSE [created |-> FALSE, delay |-> Undefined, listenTo |-> Undefined]

\* Variant: the descriptor gets a header collection of its own.
RequestInitFreshHeaders(r, u, headers, body) ==
  [method |-> taskToMethod(u.task), headers |-> <<>>]

\* The descriptor of lines 133-145; signal is the request whose controller
\* the signal belongs to.
RequestInit(r, u, headers, body) ==
  LET base == [method |-> taskToMethod(u.task), headers |-> headers]
      withBody == IF body.def /\ body.val # <<>>
                  THEN base @@ [body |-> body.val] ELSE base
  IN  IF getSignal(u.requestOptions).created
      THEN withBody @@ [signal |-> r] ELSE withBody

\* makeRequest: the transport function is invoked with the URL string and
\* the descriptor, and its pending result is what the caller gets.
makeRequest(r, url, requestInit) == [req |-> r, url |-> url, init |-> requestInit]

\* Variant: one controller shared by every invocation.
AbortEvery(c, r) == [x \in DOMAIN c |-> IF c[x] = "none" THEN "none" ELSE "aborted"]

\* The timer callback and the "abort" listener: controller.abort().
AbortController(c, r) == [c EXCEPT ![r] = "aborted"]

RECURSIVE RunListeners(_, _)
RunListeners(c, ls) ==
  IF ls = <<>> THEN c ELSE RunListeners(AbortController(c, Head(ls)), Tail(ls))

InSeq(x, sq) == \E i \in 1..Len(sq) : sq[i] = x

MakeServerRequest(r, u, headers, body) ==
  LET sig == getSignal(u.requestOptions)
  IN  /\ reqs[r].phase = "idle"
      /\ ctrl' = [ctrl EXCEPT ![r] = IF sig.created THEN "live" ELSE "none"]
      /\ timer' = [timer EXCEPT ![r] =
                     IF sig.delay.def THEN [state |-> "pending", remaining |-> sig.delay.val]
                     ELSE [state |-> "none"]]
      /\ listeners' = IF sig.created /\ sig.listenTo.def
                      THEN [listeners EXCEPT ![sig.listenTo.val] = Append(@, r)]
                      ELSE listeners
      /\ fetchCalls' = Append(fetchCalls,
                              makeRequest(r, toString(u), RequestInit(r, u, headers, body)))
      /\ reqs' = [reqs EXCEPT ![r] =
                    [phase |-> "inflight", url |-> u, headers |-> headers, body |-> body,
                     preAborted |-> /\ Field(u.requestOptions, "signal").def
                                    /\ extAborted[Field(u.requestOptions, "signal").val]]]
      /\ UNCHANGED <<urlVars, hdrCall, extAborted, cause>>

\* The transport settles the pending result; the caller receives it as is.
TransportSettle(r, outcome) ==
  /\ reqs[r].phase = "inflight"
  /\ outcome = "AbortError" => ctrl[r] = "aborted"
  /\ reqs' = [reqs EXCEPT ![r] = [phase |-> "settled", url |-> reqs[r].url,
                                  headers |-> reqs[r].headers, body |-> reqs[r].body,
                                  preAborted |-> reqs[r].preAborted,
                                  settled |-> outcome, returned |-> outcome]]
  /\ UNCHANGED <<urlVars, hdrCall, ctrl, timer, extAborted, listeners, fetchCalls, cause>>

\* Time passes: every pending timer is one tick closer.
Tick ==
  /\ \E r \in Reqs : timer[r].state = "pending" /\ timer[r].remaining > 0
  /\ timer' = [r \in Reqs |->
                 IF timer[r].state = "pending" /\ timer[r].remaining > 0
                 THEN [timer[r] EXCEPT !.remaining = @ - 1] ELSE timer[r]]
  /\ UNCHANGED <<urlVars, hdrCall, reqs, ctrl, extAborted, listeners, fetchCalls, cause>>

\* The event loop runs a due timer; it was never cleared, so it runs
\* whether or not the request has settled.
TimerFire(r) ==
  /\ timer[r].state = "pending" /\ timer[r].remaining = 0
  /\ timer' = [timer EXCEPT ![r] = [state |-> "ran"]]
  /\ ctrl' = AbortController(ctrl, r)
  /\ cause' = [cause EXCEPT ![r] = @ \cup {"timeout"}]
  /\ UNCHANGED <<urlVars, hdrCall, reqs, extAborted, listeners, fetchCalls>>

\* The caller aborts an external signal: its "abort" event is dispatched,
\* once, to the listeners added so far.
AbortExternal(s) ==
  /\ ~extAborted[s]
  /\ extAborted' = [extAborted EXCEPT ![s] = TRUE]
  /\ ctrl' = RunListeners(ctrl, listeners[s])
  /\ cause' = [r \in Reqs |-> IF InSeq(r, listeners[s]) THEN cause[r] \cup {"external"}
                              ELSE cause[r]]
  /\ UNCHANGED <<urlVars, hdrCall, reqs, timer, listeners, fetchCalls>>

\* Inputs.
Timeouts == {Undefined, Some(-1)} \cup {Some(t) : t \in 0..MaxTimeout}
Signals == {Undefined} \cup {Some(s) : s \in ExtSignals}
SignalOptions ==
  {Undefined}
  \cup {Options(Undefined, Undefined, Undefined, t, s) : t \in Timeouts, s \in Signals}
Outcomes == {"Response", "TypeError", "AbortError"}

ReqInit ==
  /\ urlObj = NoUrl /\ initialHref = <<>> /\ appendLog = <<>>
  /\ hdrCall = Undefined
  /\ reqs = [r \in Reqs |-> [phase |-> "idle"]]
  /\ ctrl = [r \in Reqs |-> "none"]
  /\ timer = [r \in Reqs |-> [state |-> "none"]]
  /\ cause = [r \in Reqs |-> {}]
  /\ extAborted = [s \in ExtSignals |-> FALSE]
  /\ listeners = [s \in ExtSignals |-> <<>>]
  /\ fetchCalls = <<>>

\* Two invocations at once, over every timeout / signal setting.
Next ==
  \/ \E r \in Reqs, ro \in SignalOptions :
       LET u == NewRequestUrl("FilesRequestUrl", "GET", "k", ro)
       IN  MakeServerRequest(r, u, getHeaders(u).value, Undefined)
  \/ \E r \in Reqs, outcome \in {"Response", "AbortError"} : TransportSettle(r, outcome)
  \/ Tick
  \/ \E r \in Reqs : TimerFire(r)
  \/ \E s \in ExtSignals : AbortExternal(s)

Spec == ReqInit /\ [][Next]_vars

\* The event loop keeps running: time passes and due timers are run.
LiveSpec == Spec /\ WF_vars(Tick) /\ \A r \in Reqs : WF_vars(TimerFire(r))

\* One invocation, over every task, class, body and header collection.
Bodies == {Undefined, Some(<<>>), Some(<<"data">>)}
DispatchOptions ==
  {Undefined,
   Options(Undefined, Undefined, Undefined, Some(1), Undefined),
   Options(Some(<<"v1">>), Undefined, Some([isHeaders |-> FALSE, record |-> <<<<"Foo", <<"x">>>>>>]),
           Undefined, Some("s1"))}

DispatchNext ==
  \/ \E cls \in UrlClasses, task \in RpcTask, ro \in DispatchOptions, body \in Bodies :
       LET u == NewRequestUrl(cls, task, "k", ro)
       IN  MakeServerRequest("r1", u, getHeaders(u).value, body)
  \/ \E outcome \in Outcomes : TransportSettle("r1", outcome)
  \/ Tick
  \/ TimerFire("r1")
  \/ \E s \in ExtSignals : AbortExternal(s)

DispatchSpec == ReqInit /\ [][DispatchNext]_vars

(***************************************************************************)
(* C1 and C2: reserved header names.                                       *)
(***************************************************************************)
ReservedNames == {"x-goog-api-key", "x-goog-api-client"}

\* The name/value pairs the caller put into customHeaders.
RECURSIVE ListPairs(_)
ListPairs(headers) ==
  IF headers = <<>> THEN <<>>
  ELSE <<<<Head(headers).name, Head(headers).value>>>> \o ListPairs(Tail(headers))

Supplied(requestOptions) ==
  LET customHeaders == Field(requestOptions, "customHeaders")
  IN  IF ~customHeaders.def THEN <<>>
      ELSE IF customHeaders.val.isHeaders THEN ListPairs(customHeaders.val.list)
      ELSE customHeaders.val.record

\* C1: when some custom header name equals x-goog-api-key or
\* x-goog-api-client, getHeaders throws an input-validation error, hands no
\* header collection (merged in part or in full) to the caller, and nothing
\* has been dispatched.
C1_ReservedNameThrows ==
  hdrCall.def =>
    LET ps == Supplied(hdrCall.val.url.requestOptions)
        out == hdrCall.val.outcome
    IN  (\E i \in 1..Len(ps) : ps[i][1] \in ReservedNames) =>
          /\ out.kind = "throw"
          /\ out.error = "GoogleGenerativeAIRequestInputError"
          /\ "value" \notin DOMAIN out
          /\ fetchCalls = <<>>

\* A reserved name that is not the first entry, after a valid one.
C1_Witness ==
  /\ hdrCall.def
  /\ Supplied(hdrCall.val.url.requestOptions) = <<<<"foo", <<"x">>>>, <<"x-goog-api-key", <<"y">>>>>>
  /\ hdrCall.val.outcome.kind = "throw"

\* C2: a returned collection holds x-goog-api-key with exactly the apiKey,
\* x-goog-api-client with exactly the value derived from requestOptions,
\* every supplied custom name/value pair, and no supplied value under a
\* reserved name, in any spelling of the name.
C2_ReturnedHeaders ==
  (hdrCall.def /\ hdrCall.val.outcome.kind = "return") =>
    LET u == hdrCall.val.url
        ps == Supplied(u.requestOptions)
        h == hdrCall.val.outcome.value
    IN  /\ HeadersGet(h, "x-goog-api-key") = <<u.apiKey>>
        /\ HeadersGet(h, "x-goog-api-client") = getClientHeaders(u.requestOptions)
        /\ \A i \in 1..Len(ps) :
             /\ HeadersHas(h, ps[i][1])
             /\ \A j \in 1..Len(ps[i][2]) :
                  \E k \in 1..Len(HeadersGet(h, ps[i][1])) :
                    HeadersGet(h, ps[i][1])[k] = ps[i][2][j]
             /\ ToLowerCase(ps[i][1]) \notin ReservedNames

\* Custom headers in two spellings of one name are returned, merged.
C2_Witness ==
  /\ hdrCall.def
  /\ hdrCall.val.outcome.kind = "return"
  /\ Supplied(hdrCall.val.url.requestOptions) = <<<<"Foo", <<"x">>>>, <<"foo", <<"y">>>>>>
  /\ HeadersGet(hdrCall.val.outcome.value, "foo") = <<"x", "y">>

(***************************************************************************)
(* C3, C4, C5 and C10: the cancellation signal.                            *)
(***************************************************************************)
OptionsOf(r) == reqs[r].url.requestOptions

CallsOf(r) == SelectSeq(fetchCalls, LAMBDA c : c.req = r)

Dispatched(r) == reqs[r].phase # "idle"

\* C3: a request built with an external signal that is already aborted
\* gets, and hands to the transport, a signal that is already fired,
\* whatever the timeout.
C3_PreAbortedIsFired ==
  \A r \in Reqs :
    (Dispatched(r) /\ reqs[r].preAborted) =>
      /\ ctrl[r] = "aborted"
      /\ \A i \in 1..Len(CallsOf(r)) : CallsOf(r)[i].init.signal = r

\* C4: a returned signal is aborted by the first trigger to occur.  With a
\* timeout t >= 0 the timer is scheduled with delay t and the signal is
\* eventually aborted, settled request or not; the step that runs the timer
\* aborts it; the step in which the external signal turns aborted aborts
\* it; and an aborted signal stays aborted.
C4_FiresOnFirstTrigger ==
  /\ \A r \in Reqs :
       (Dispatched(r) /\ TimeoutSet(OptionsOf(r))) ~> (ctrl[r] = "aborted")
  /\ [](\A r \in Reqs :
          timer[r].state = "pending" =>
            timer[r].remaining <= Field(OptionsOf(r), "timeout").val)
  /\ [][\A r \in Reqs :
          (timer[r].state = "pending" /\ timer'[r].state = "ran") => ctrl'[r] = "aborted"]_vars
  /\ [][\A r \in Reqs, s \in ExtSignals :
          (/\ Dispatched(r)
           /\ Field(OptionsOf(r), "signal") = Some(s)
           /\ ~extAborted[s] /\ extAborted'[s]) => ctrl'[r] = "aborted"]_vars
  /\ [][\A r \in Reqs : ctrl[r] = "aborted" => ctrl'[r] = "aborted"]_vars

\* One signal fired by a zero timeout alone, after its request completed
\* with a response; the other by the external signal, its timer pending.
C4_Witness ==
  \E r1, r2 \in Reqs :
    /\ r1 # r2
    /\ reqs[r1].phase = "settled" /\ reqs[r1].settled = "Response"
    /\ OptionsOf(r1) = Options(Undefined, Undefined, Undefined, Some(0), Undefined)
    /\ ctrl[r1] = "aborted" /\ cause[r1] = {"timeout"}
    /\ Dispatched(r2)
    /\ OptionsOf(r2) = Options(Undefined, Undefined, Undefined, Some(MaxTimeout), Some("s1"))
    /\ timer[r2].state = "pending"
    /\ ctrl[r2] = "aborted" /\ cause[r2] = {"external"}

\* C5: with no options, or options with neither a signal nor a timeout
\* >= 0, no signal is created and the transport's descriptor has none; and
\* a signal is aborted only if its timer has run or its external signal has
\* aborted.
C5_NoTriggerNoSignal ==
  \A r \in Reqs :
    /\ ~Dispatched(r) => ctrl[r] = "none"
    /\ Dispatched(r) =>
         /\ (~Field(OptionsOf(r), "signal").def /\ ~TimeoutSet(OptionsOf(r))) =>
              /\ ctrl[r] = "none"
              /\ \A i \in 1..Len(CallsOf(r)) : "signal" \notin DOMAIN CallsOf(r)[i].init
         /\ ctrl[r] = "aborted" =>
              \/ timer[r].state = "ran"
              \/ /\ Field(OptionsOf(r), "signal").def
                 /\ extAborted[Field(OptionsOf(r), "signal").val]

\* A negative timeout and no options at all, both dispatched with no
\* signal, next to an aborted external signal.
C5_Witness ==
  \E r1, r2 \in Reqs :
    /\ reqs[r1].phase = "settled"
    /\ OptionsOf(r1) = Options(Undefined, Undefined, Undefined, Some(-1), Undefined)
    /\ Dispatched(r2) /\ OptionsOf(r2) = Undefined
    /\ Len(fetchCalls) = 2
    /\ \A i \in 1..2 : "signal" \notin DOMAIN fetchCalls[i].init
    /\ extAborted["s1"]

\* C10: of two requests, the step that runs one request's timer aborts that
\* request's signal and changes no other request's signal and no external
\* signal; the step that aborts an external signal aborts the signal of
\* every dispatched request built with it, and of no other request.
C10_SignalsIndependent ==
  /\ [][\A r \in Reqs :
          (timer[r].state = "pending" /\ timer'[r].state = "ran") =>
            /\ ctrl'[r] = "aborted"
            /\ \A r2 \in Reqs \ {r} : ctrl'[r2] = ctrl[r2]
            /\ extAborted' = extAborted]_vars
  /\ [][\A s \in ExtSignals :
          (~extAborted[s] /\ extAborted'[s]) =>
            \A r \in Reqs :
              IF Dispatched(r) /\ Field(OptionsOf(r), "signal") = Some(s)
              THEN ctrl'[r] = "aborted"
              ELSE ctrl'[r] = ctrl[r]]_vars

\* Both in flight on the shared external signal: one timed out, the other
\* and the external signals untouched.
C10_Witness ==
  /\ \A r \in Reqs : reqs[r].phase = "inflight"
                     /\ Field(OptionsOf(r), "signal") = Some("s1")
                     /\ TimeoutSet(OptionsOf(r))
  /\ timer["r1"].state = "ran" /\ ctrl["r1"] = "aborted"
  /\ timer["r2"].state = "pending" /\ ctrl["r2"] = "live"
  /\ \A s \in ExtSignals : ~extAborted[s]

(***************************************************************************)
(* C6 and C8: the dispatcher.                                              *)
(***************************************************************************)
\* C6: the descriptor handed to the transport has method POST, GET, GET,
\* DELETE, PATCH, POST for task UPLOAD, LIST, GET, DELETE, UPDATE, CREATE,
\* whatever the headers, body and options.
C6_MethodOfTask ==
  \A i \in 1..Len(fetchCalls) :
    LET task == reqs[fetchCalls[i].req].url.task
        method == fetchCalls[i].init.method
    IN  /\ task = "UPLOAD" => method = "POST"
        /\ task = "LIST" => method = "GET"
        /\ task = "GET" => method = "GET"
        /\ task = "DELETE" => method = "DELETE"
        /\ task = "UPDATE" => method = "PATCH"
        /\ task = "CREATE" => method = "POST"

\* An UPDATE dispatched with a body, custom headers and a signal.
C6_Witness ==
  /\ Len(fetchCalls) = 1
  /\ reqs["r1"].url.task = "UPDATE"
  /\ fetchCalls[1].init.method = "PATCH"
  /\ DOMAIN fetchCalls[1].init = {"method", "headers", "body", "signal"}

\* C8: a dispatched request has invoked the transport exactly once, with
\* the URL's string, the task's method, the header collection passed in and
\* the body exactly when it is non-empty; there is no further invocation
\* whatever the outcome, and the caller gets the transport's outcome.
C8_OneInvocation ==
  /\ Len(fetchCalls) = Cardinality({r \in Reqs : Dispatched(r)})
  /\ \A r \in Reqs :
       Dispatched(r) =>
         /\ Len(CallsOf(r)) = 1
         /\ LET c == CallsOf(r)[1]
            IN  /\ c.url = toString(reqs[r].url)
                /\ c.init.method = taskToMethod(reqs[r].url.task)
                /\ c.init.headers = reqs[r].headers
                /\ "body" \in DOMAIN c.init =>
                     (reqs[r].body.def /\ c.init.body = reqs[r].body.val)
                /\ (reqs[r].body.def /\ reqs[r].body.val # <<>>) => "body" \in DOMAIN c.init
         /\ reqs[r].phase = "settled" => reqs[r].returned = reqs[r].settled

\* A request that failed after its signal fired: still one invocation.
C8_Witness ==
  /\ reqs["r1"].phase = "settled" /\ reqs["r1"].settled = "AbortError"
  /\ reqs["r1"].body = Some(<<"data">>)
  /\ Len(fetchCalls) = 1
  /\ fetchCalls[1].init.body = <<"data">>
  /\ HeadersGet(fetchCalls[1].init.headers, "foo") = <<"x">>

(***************************************************************************)
(* C7 and C9: what a request URL renders as.  NoDotSegment, NormalBaseUrl   *)
(* and ClaimedUrl state the claims; they model no code.                    *)
(***************************************************************************)
NoDotSegment(str) == \A i \in 1..Len(str) : str[i] \notin DotSegments

\* A base URL the URL parser reproduces as written.
NormalBaseUrl(base) ==
  /\ base[1] = ToLowerCase(base[1])
  /\ base[3] = ToLowerCase(base[3])
  /\ NoDotSegment(base)

\* {baseUrl}[/upload]/{apiVersion}/{resource}, as the claim writes it.
ClaimedUrl(u) ==
  LET base == OrDefault(Field(u.requestOptions, "baseUrl"), DEFAULT_BASE_URL)
      ver == OrDefault(Field(u.requestOptions, "apiVersion"), DEFAULT_API_VERSION)
      upload == IF u.cls = "FilesRequestUrl" /\ u.task = "UPLOAD"
                THEN <<"/", "upload">> ELSE <<>>
      resource == IF u.cls = "CachedContentUrl" THEN "cachedContents" ELSE "files"
  IN  base \o upload \o <<"/">> \o ver \o <<"/", resource>>

\* C7 as stated: every newly constructed CachedContentUrl renders as
\* {baseUrl}/{apiVersion}/cachedContents and every FilesRequestUrl as
\* {baseUrl}/{apiVersion}/files, with /upload before the version for
\* FilesRequestUrl with task UPLOAD only, whatever the overrides are.
C7_RendersAsWritten ==
  (urlObj.def /\ appendLog = <<>>) => toString(urlObj.val) = ClaimedUrl(urlObj.val)

\* C7, amended: the rendering is {baseUrl}[/upload]/{apiVersion}/{resource}
\* whenever the effective baseUrl and apiVersion are in the URL parser's
\* normal form (lower-case scheme and host, no dot segments); in every case
\* scheme and host are the effective baseUrl's in lower case and the last
\* segment is the resource name.
C7_RendersNormalised ==
  (urlObj.def /\ appendLog = <<>>) =>
    LET u == urlObj.val
        base == OrDefault(Field(u.requestOptions, "baseUrl"), DEFAULT_BASE_URL)
        ver == OrDefault(Field(u.requestOptions, "apiVersion"), DEFAULT_API_VERSION)
        href == toString(u)
    IN  /\ (NormalBaseUrl(base) /\ NoDotSegment(ver)) => href = ClaimedUrl(u)
        /\ href[1] = ToLowerCase(base[1])
        /\ href[3] = ToLowerCase(base[3])
        /\ href[Len(href)] = (IF u.cls = "CachedContentUrl" THEN "cachedContents" ELSE "files")

\* An upload URL built with both overrides present and in normal form.
C7_Witness ==
  /\ urlObj.def
  /\ urlObj.val.cls = "FilesRequestUrl" /\ urlObj.val.task = "UPLOAD"
  /\ urlObj.val.requestOptions = UrlOptions(Some(<<"v1">>), Some(<<"https:", "//", "proxy.example", "/", "api">>))
  /\ toString(urlObj.val) =
       <<"https:", "//", "proxy.example", "/", "api", "/", "upload", "/", "v1", "/", "files">>

RECURSIVE PathCalls(_)
PathCalls(log) ==
  IF log = <<>> THEN <<>>
  ELSE (IF Head(log).op = "appendPath" THEN <<"/">> \o Head(log).path ELSE <<>>)
       \o PathCalls(Tail(log))

RECURSIVE ParamCalls(_)
ParamCalls(log) ==
  IF log = <<>> THEN <<>>
  ELSE (IF Head(log).op = "appendParam" THEN <<<<Head(log).key, Head(log).value>>>> ELSE <<>>)
       \o ParamCalls(Tail(log))

\* C9 as stated: after any appendPath / appendParam calls the URL renders
\* as the initial path, then one /segment per appendPath call in call
\* order, then a query of one key=value entry per appendParam call in call
\* order.
C9_AppendsAsWritten ==
  urlObj.def =>
    toString(urlObj.val) = initialHref \o PathCalls(appendLog) \o Search(ParamCalls(appendLog))

\* C9, amended: the query holds exactly one entry per appendParam call, in
\* call order and repeated keys included, whatever was appended to the
\* path; the path is the initial path followed by one /segment per
\* appendPath call provided no appended path is a dot segment ("." or
\* ".."), which the URL parser resolves instead of appending; appendPath
\* leaves the query unchanged and appendParam leaves the path unchanged.
C9_AppendsNormalised ==
  /\ [](urlObj.def =>
          /\ urlObj.val._url.query = ParamCalls(appendLog)
          /\ NoDotSegment(PathCalls(appendLog)) =>
               toString(urlObj.val) =
                 initialHref \o PathCalls(appendLog) \o Search(ParamCalls(appendLog)))
  /\ [][(urlObj.def /\ urlObj'.def /\ Len(appendLog') = Len(appendLog) + 1) =>
          IF appendLog'[Len(appendLog')].op = "appendPath"
          THEN urlObj'.val._url.query = urlObj.val._url.query
          ELSE urlObj'.val._url.path = urlObj.val._url.path]_vars

\* "a" then "b" appended, and the same key appended twice.
C9_Witness ==
  /\ urlObj.def
  /\ PathCalls(appendLog) = <<"/", "a", "/", "b">>
  /\ ParamCalls(appendLog) = <<<<"k", "v">>, <<"k", "v">>>>
  /\ toString(urlObj.val) = initialHref \o <<"/", "a", "/", "b", "?", "k", "=", "v", "&", "k", "=", "v">>

====
